---- MODULE Spec2Model ----
(***************************************************************************)
(* Model of src/Firestore-Helper.js: a helper module that wraps the        *)
(* Firestore document store, Firebase auth and Firebase storage in         *)
(* promise-returning functions.                                            *)
(*                                                                         *)
(* JavaScript values are represented as follows.  An object is a function  *)
(* from field names to values whose DOMAIN is the set of fields present    *)
(* (a missing field reads as undefined).  The values undefined and null    *)
(* are the strings Undefined and Null, which are no id, name or direction. *)
(* A JavaScript array is a sequence; JS index i is TLA+ index i + 1.       *)
(* A timestamp is the integer reading of the client clock.  Every function *)
(* takes the collection name and works on that collection alone; one       *)
(* collection is modelled.                                                 *)
(***************************************************************************)
EXTENDS Integers, Sequences, FiniteSets, TLC

VARIABLES
  db,           \* the collection: document key -> stored document data
  now,          \* the client clock read by firebase.firestore.Timestamp.now()
  currentUser,  \* firebase.auth().currentUser: Null, or the user (its uid)
  issued,       \* how many auto-ids collection.doc() has handed out
  calls,        \* the calls made so far: arguments, promise state, value
  reads,        \* how many get() requests the store has received
  storage       \* firebase.storage(): child name -> the blob stored there

vars == <<db, now, currentUser, issued, calls, reads, storage>>

\* ------------------------------------------------------------------ bounds
MaxCalls == 2
MaxTime == 1
MaxFilters == 2
MaxLimit == 2

\* ---------------------------------------------------------- JS primitives
Undefined == "<undefined>"
Null == "<null>"
EmptyObject == [f \in {} |-> Undefined]

HasField(obj, f) == f \in DOMAIN obj

\* obj.f : undefined when the field is missing
Field(obj, f) == IF f \in DOMAIN obj THEN obj[f] ELSE Undefined

\* obj.f = v
SetField(obj, f, v) ==
  [g \in DOMAIN obj \cup {f} |-> IF g = f THEN v ELSE obj[g]]

\* {...a, ...b} : the fields of b laid over those of a
Assign(a, b) ==
  [g \in DOMAIN a \cup DOMAIN b |-> IF g \in DOMAIN b THEN b[g] ELSE a[g]]

\* an argument that may be null: None, or Some(x)
None == <<>>
Some(x) == <<x>>

\* arr[i] of a JS array: undefined past its end
JsIndex(arr, i) == IF i + 1 \in DOMAIN arr THEN arr[i + 1] ELSE Undefined

\* arr[i] = v, for i at most the length of arr
JsSetIndex(arr, i, v) ==
  [j \in DOMAIN arr \cup {i + 1} |-> IF j = i + 1 THEN v ELSE arr[j]]

\* typeof v, for v a string or undefined: always a string
TypeOf(v) == IF v = Undefined THEN "undefined" ELSE "string"

\* ---------------------------------------------------------------- inputs
CallerIds == {"a"}
\* collection.doc() returns a reference with a new random id that no other
\* document or call has; up to renaming, the n-th id it returns is AutoIds[n]
AutoIds == <<"g1", "g2", "g3", "g4", "g5">>
Names == {"Al", "Bo"}
Uids == {"u1"}

\* records a caller hands to addRecord: no id, a null id, or an explicit id
AddInputs(ids) ==
  {[name |-> n] : n \in Names}
    \cup {[name |-> n, id |-> i] : n \in Names, i \in ids \cup {Null}}

\* partial records a caller hands to editRecord
EditInputs == {[name |-> "Ala"], [age |-> 30]}

\* ------------------------------------------------- the backing collection
\* firebase.firestore().collection(c).doc() : a reference with a new id
NewDocId(n) == AutoIds[n + 1]

IssuedIds(n) == {AutoIds[j] : j \in 1..n}

\* ref.set(data) : the document at key becomes data, whatever was there
DocSet(d, key, data) ==
  [k \in DOMAIN d \cup {key} |-> IF k = key THEN data ELSE d[k]]

\* ref.update(data) on an existing document: the fields of data are merged
DocUpdate(d, key, data) ==
  [k \in DOMAIN d |-> IF k = key THEN Assign(d[k], data) ELSE d[k]]

\* ref.delete() : the document is removed; removing an absent one succeeds
DocDelete(d, key) == [k \in DOMAIN d \ {key} |-> d[k]]

\* ref.get() : a snapshot telling whether the document exists, and its data
DocGet(d, key) ==
  [exists |-> key \in DOMAIN d, id |-> key,
   data |-> IF key \in DOMAIN d THEN d[key] ELSE EmptyObject]

\* ---------------------------------------------------------------- addRecord
\* data.created_at = Timestamp.now()
addRecordStamp(data, t) == SetField(data, "created_at", t)

addRecordRefId_AlwaysNew(data, n) == NewDocId(n)

\* the id of ref: a new one when data.id is undefined or null, else data.id
addRecordRefId(data, n) ==
  IF Field(data, "id") = Undefined \/ Field(data, "id") = Null
    THEN NewDocId(n)
    ELSE data["id"]

addRecordData_NoId(data, t, key) == addRecordStamp(data, t)

\* data.id = ref.id
addRecordData(data, t, key) == SetField(addRecordStamp(data, t), "id", key)

\* what ref.set(data) resolves with: nothing
SetResolution == Undefined

\* {...snapshot} : an undefined snapshot spreads to no field
Spread(snapshot) == IF snapshot = Undefined THEN EmptyObject ELSE snapshot

\* var res = {id: data.id, ...snapshot}
addRecordResult(data, snapshot) ==
  Assign([id |-> Field(data, "id")], Spread(snapshot))

\* ---------------------------------------------------------------- editRecord
\* data.updated_at = Timestamp.now()
editRecordData(data, t) == SetField(data, "updated_at", t)

editRecordWrite_Set(d, key, data) == DocSet(d, key, data)

\* ref.update(data)
editRecordWrite(d, key, data) == DocUpdate(d, key, data)

\* ---------------------------------------------------------- deleteRecordSoft
deleteRecordSoftData_NoFlag(t, user) ==
  [updated_at |-> t, updated_by |-> user]

\* data = {}; updated_at, updated_by, deleted are set on it
deleteRecordSoftData(t, user) ==
  [updated_at |-> t, updated_by |-> user, deleted |-> TRUE]

\* ref.update(data)
deleteRecordSoftWrite(d, key, data) == DocUpdate(d, key, data)

\* ---------------------------------------------------------------- the calls
Pending(i) == i \in DOMAIN calls /\ calls[i].status = "pending"

\* arg is what the caller passed (for deleteRecordSoft, the current user the
\* call found), data what the call hands to the store
Call(op, key, arg, data, status, value) ==
  [op |-> op, key |-> key, arg |-> arg, data |-> data,
   status |-> status, value |-> value]

Settle(i, status, value) ==
  calls' = [calls EXCEPT ![i].status = status, ![i].value = value]

\* addRecord(collection, data) up to the return of the promise
addRecord(data) ==
  /\ Len(calls) < MaxCalls
  /\ LET auto == Field(data, "id") = Undefined \/ Field(data, "id") = Null
         key == addRecordRefId(data, issued)
     IN /\ issued' = IF auto THEN issued + 1 ELSE issued
        /\ calls' = Append(calls, Call("add", key, data,
                                       addRecordData(data, now, key),
                                       "pending", Undefined))
  /\ UNCHANGED <<db, now, currentUser, reads, storage>>

\* ref.set(data) commits, and the .then callback resolves the promise
addRecordResolve(i) ==
  /\ Pending(i) /\ calls[i].op = "add"
  /\ db' = DocSet(db, calls[i].key, calls[i].data)
  /\ Settle(i, "resolved", addRecordResult(calls[i].data, SetResolution))
  /\ UNCHANGED <<now, currentUser, issued, reads, storage>>

\* editRecord(collection, id, data) up to the return of the promise
editRecord(id, data) ==
  /\ Len(calls) < MaxCalls
  /\ calls' = Append(calls, Call("edit", id, data, editRecordData(data, now),
                                 "pending", Undefined))
  /\ UNCHANGED <<db, now, currentUser, issued, reads, storage>>

\* ref.update(data) commits on an existing document; resolve(snapshot)
editRecordResolve(i) ==
  /\ Pending(i) /\ calls[i].op = "edit"
  /\ calls[i].key \in DOMAIN db
  /\ db' = editRecordWrite(db, calls[i].key, calls[i].data)
  /\ Settle(i, "resolved", Undefined)
  /\ UNCHANGED <<now, currentUser, issued, reads, storage>>

\* deleteRecord(collection, id) up to the return of the promise
deleteRecord(id) ==
  /\ Len(calls) < MaxCalls
  /\ calls' = Append(calls, Call("delete", id, EmptyObject, EmptyObject,
                                 "pending", Undefined))
  /\ UNCHANGED <<db, now, currentUser, issued, reads, storage>>

\* ref.delete() commits; resolve()
deleteRecordResolve(i) ==
  /\ Pending(i) /\ calls[i].op = "delete"
  /\ db' = DocDelete(db, calls[i].key)
  /\ Settle(i, "resolved", Undefined)
  /\ UNCHANGED <<now, currentUser, issued, reads, storage>>

\* deleteRecordSoft(collection, id): currentUser.uid is read before the
\* promise exists, so without a current user the call throws a TypeError
deleteRecordSoft(id) ==
  /\ Len(calls) < MaxCalls
  /\ calls' =
       IF currentUser = Null
         THEN Append(calls, Call("soft", id, currentUser, EmptyObject,
                                 "thrown", "TypeError"))
         ELSE Append(calls, Call("soft", id, currentUser,
                                 deleteRecordSoftData(now, currentUser),
                                 "pending", Undefined))
  /\ UNCHANGED <<db, now, currentUser, issued, reads, storage>>

\* ref.update(data) commits on an existing document; resolve()
deleteRecordSoftResolve(i) ==
  /\ Pending(i) /\ calls[i].op = "soft"
  /\ calls[i].key \in DOMAIN db
  /\ db' = deleteRecordSoftWrite(db, calls[i].key, calls[i].data)
  /\ Settle(i, "resolved", Undefined)
  /\ UNCHANGED <<now, currentUser, issued, reads, storage>>

\* getRecord(collection, id) up to the return of the promise
getRecord(id) ==
  /\ Len(calls) < MaxCalls
  /\ calls' = Append(calls, Call("get", id, EmptyObject, EmptyObject,
                                 "pending", Undefined))
  /\ reads' = reads + 1
  /\ UNCHANGED <<db, now, currentUser, issued, storage>>

\* ref.get() answers; resolve(snapshot)
getRecordResolve(i) ==
  /\ Pending(i) /\ calls[i].op = "get"
  /\ Settle(i, "resolved", DocGet(db, calls[i].key))
  /\ UNCHANGED <<db, now, currentUser, issued, reads, storage>>

\* the store fails the request of a pending call; .catch rejects the promise.
\* update() of a document that does not exist fails with not-found.
Reject(i) ==
  /\ Pending(i)
  /\ \E cause \in {"unavailable", "not-found"} :
       /\ cause = "not-found" =>
            calls[i].op \in {"edit", "soft"} /\ calls[i].key \notin DOMAIN db
       /\ Settle(i, "rejected", cause)
  /\ UNCHANGED <<db, now, currentUser, issued, reads, storage>>

\* the environment: the clock advances, a user signs in or out
Tick ==
  /\ now < MaxTime
  /\ now' = now + 1
  /\ UNCHANGED <<db, currentUser, issued, calls, reads, storage>>

SignIn(u) ==
  /\ currentUser = Null
  /\ currentUser' = u
  /\ UNCHANGED <<db, now, issued, calls, reads, storage>>

SignOut ==
  /\ currentUser # Null
  /\ currentUser' = Null
  /\ UNCHANGED <<db, now, issued, calls, reads, storage>>

\* The collection outlives the program: it starts empty, or holding records
\* that earlier addRecord calls with ids "a" and "b" stored at time 0.
StoredAtStart(id, name) ==
  addRecordData([name |-> name, id |-> id], 0, id)

InitialCollections ==
  {EmptyObject,
   DocSet(EmptyObject, "a", StoredAtStart("a", "Al")),
   DocSet(DocSet(EmptyObject, "a", StoredAtStart("a", "Al")),
          "b", StoredAtStart("b", "Bo"))}

Init ==
  /\ db \in InitialCollections
  /\ now = 0
  /\ currentUser = Null
  /\ issued = 0
  /\ calls = <<>>
  /\ reads = 0
  /\ storage = EmptyObject

Next ==
  \/ \E data \in AddInputs(CallerIds \cup IssuedIds(issued)) : addRecord(data)
  \/ \E i \in DOMAIN calls : addRecordResolve(i)
  \/ \E id \in CallerIds \cup IssuedIds(issued), data \in EditInputs :
       editRecord(id, data)
  \/ \E i \in DOMAIN calls : editRecordResolve(i)
  \/ \E id \in CallerIds \cup IssuedIds(issued) : deleteRecord(id)
  \/ \E i \in DOMAIN calls : deleteRecordResolve(i)
  \/ \E id \in CallerIds \cup IssuedIds(issued) : deleteRecordSoft(id)
  \/ \E i \in DOMAIN calls : deleteRecordSoftResolve(i)
  \/ \E id \in CallerIds \cup IssuedIds(issued) : getRecord(id)
  \/ \E i \in DOMAIN calls : getRecordResolve(i)
  \/ \E i \in DOMAIN calls : Reject(i)
  \/ Tick
  \/ \E u \in Uids : SignIn(u)
  \/ SignOut

Spec == Init /\ [][Next]_vars

\* the create operations alone
NextCreate ==
  \/ \E data \in AddInputs(CallerIds \cup IssuedIds(issued)) : addRecord(data)
  \/ \E i \in DOMAIN calls : addRecordResolve(i)
  \/ \E id \in CallerIds \cup IssuedIds(issued) : getRecord(id)
  \/ \E i \in DOMAIN calls : getRecordResolve(i)
  \/ \E i \in DOMAIN calls : Reject(i)
  \/ Tick

SpecCreate == Init /\ [][NextCreate]_vars

\* the update operations alone
NextUpdate ==
  \/ \E id \in CallerIds, data \in EditInputs : editRecord(id, data)
  \/ \E i \in DOMAIN calls : editRecordResolve(i)
  \/ \E id \in CallerIds : deleteRecordSoft(id)
  \/ \E i \in DOMAIN calls : deleteRecordSoftResolve(i)
  \/ \E id \in CallerIds : getRecord(id)
  \/ \E i \in DOMAIN calls : getRecordResolve(i)
  \/ \E i \in DOMAIN calls : Reject(i)
  \/ Tick
  \/ \E u \in Uids : SignIn(u)
  \/ SignOut

SpecUpdate == Init /\ [][NextUpdate]_vars

\* ------------------------------------------------------- the query builder
\* A query reference is the chain of builder calls made on the collection.
CollectionRef == <<>>

\* queryRef.where(field, op, value)
Where(q, field, op, value) ==
  Append(q, [kind |-> "where", field |-> field, op |-> op, value |-> value])

\* queryRef.orderBy(field, direction)
OrderBy(q, field, dir) ==
  Append(q, [kind |-> "orderBy", field |-> field, dir |-> dir])

\* queryRef.startAfter(snapshot)
StartAfter(q, snapshot) ==
  Append(q, [kind |-> "startAfter", snapshot |-> snapshot])

\* queryRef.limit(n)
Limit(q, n) == Append(q, [kind |-> "limit", n |-> n])

RECURSIVE WhereAll(_, _)
\* queryArray.forEach(query => queryRef = queryRef.where(...query))
WhereAll(q, queryArray) ==
  IF queryArray = <<>>
    THEN q
    ELSE WhereAll(Where(q, JsIndex(Head(queryArray), 0),
                        JsIndex(Head(queryArray), 1),
                        JsIndex(Head(queryArray), 2)),
                  Tail(queryArray))

ApplyFilters_LastOnly(q, queryArray) ==
  IF queryArray # None /\ queryArray[1] # <<>>
    THEN WhereAll(q, <<queryArray[1][Len(queryArray[1])]>>)
    ELSE q

\* if (queryArray !== null) ...
ApplyFilters(q, queryArray) ==
  IF queryArray # None THEN WhereAll(q, queryArray[1]) ELSE q

\* if (typeof orderBy[1] === undefined) orderBy[1] = 'asc'
DefaultDirection(orderBy) ==
  IF TypeOf(JsIndex(orderBy, 1)) = Undefined
    THEN JsSetIndex(orderBy, 1, "asc")
    ELSE orderBy

\* if (orderBy !== null) ... queryRef.orderBy(orderBy[0], orderBy[1])
ApplyOrder(q, orderBy) ==
  IF orderBy # None
    THEN OrderBy(q, JsIndex(DefaultDirection(orderBy[1]), 0),
                 JsIndex(DefaultDirection(orderBy[1]), 1))
    ELSE q

\* if (startAfter !== null) ...
ApplyStartAfter(q, startAfter) ==
  IF startAfter # None THEN StartAfter(q, startAfter[1]) ELSE q

\* if (limit !== null) ...
ApplyLimit(q, limit) == IF limit # None THEN Limit(q, limit[1]) ELSE q

\* the query reference getRecordWithQuery calls get() on
getRecordWithQueryRef(queryArray, orderBy, startAfter, limit) ==
  ApplyLimit(
    ApplyStartAfter(
      ApplyOrder(ApplyFilters(CollectionRef, queryArray), orderBy),
      startAfter),
    limit)

\* ------------------------------------------- the store's answer to a query
\* a document snapshot of a query result
DocSnapshot(d, key) == [id |-> key, data |-> d[key]]

\* document ids are ordered as strings
IdOrder == <<"A", "B", "C", "D", "E">>
IdRank(id) == CHOOSE j \in DOMAIN IdOrder : IdOrder[j] = id

StageHolds(doc, st) ==
  CASE st.op = ">" -> doc[st.field] > st.value
    [] st.op = "<=" -> doc[st.field] <= st.value
    [] st.op = "==" -> doc[st.field] = st.value

IsOrderBy(st) == st.kind = "orderBy"
IsInequality(st) == st.kind = "where" /\ st.op \in {">", "<="}

\* orderBy(field) without a direction orders ascending
StageDirection(st) == IF st.dir = Undefined THEN "asc" ELSE st.dir

\* the order of a query: its orderBy stages; without one, the field of its
\* inequality filter if it has one; then the document id, in the direction of
\* the last of these
QueryOrder(q) ==
  LET explicit == SelectSeq(q, IsOrderBy)
      unequal == SelectSeq(q, IsInequality)
      fields ==
        IF explicit # <<>>
          THEN [j \in DOMAIN explicit |->
                  [field |-> explicit[j].field,
                   dir |-> StageDirection(explicit[j])]]
          ELSE IF unequal # <<>>
                 THEN <<[field |-> unequal[1].field, dir |-> "asc"]>>
                 ELSE <<>>
      last == IF fields = <<>> THEN "asc" ELSE fields[Len(fields)].dir
  IN Append(fields, [field |-> "__name__", dir |-> last])

OrderKey(snap, field) ==
  IF field = "__name__" THEN IdRank(snap.id) ELSE snap.data[field]

RECURSIVE ComesBefore(_, _, _)
ComesBefore(x, y, order) ==
  IF order = <<>>
    THEN FALSE
    ELSE LET a == OrderKey(x, Head(order).field)
             b == OrderKey(y, Head(order).field)
         IN IF a = b
              THEN ComesBefore(x, y, Tail(order))
              ELSE IF Head(order).dir = "asc" THEN a < b ELSE a > b

RECURSIVE SortSnapshots(_, _)
SortSnapshots(S, order) ==
  IF S = {}
    THEN <<>>
    ELSE LET first == CHOOSE x \in S :
                        \A y \in S \ {x} : ComesBefore(x, y, order)
         IN <<first>> \o SortSnapshots(S \ {first}, order)

\* queryRef.get(): the documents that pass every where stage, in the order of
\* the query, after the startAfter snapshot's place, up to the limit
QueryGet(d, q) ==
  LET order == QueryOrder(q)
      passing == {k \in DOMAIN d :
                    \A j \in DOMAIN q :
                      q[j].kind = "where" => StageHolds(d[k], q[j])}
      after == {k \in passing :
                  \A j \in DOMAIN q :
                    q[j].kind = "startAfter" =>
                      ComesBefore(q[j].snapshot, DocSnapshot(d, k), order)}
      sorted == SortSnapshots({DocSnapshot(d, k) : k \in after}, order)
      limits == {q[j].n : j \in {j \in DOMAIN q : q[j].kind = "limit"}}
      n == IF limits = {} THEN Len(sorted)
           ELSE CHOOSE m \in limits : \A o \in limits : m <= o
  IN SubSeq(sorted, 1, IF n < Len(sorted) THEN n ELSE Len(sorted))

\* ------------------------------------------------------ getRecordWithQuery
\* getRecordWithQuery(collection, queryArray, orderBy, startAfter, limit) up
\* to the return of the promise: the reference is built and get() is called
getRecordWithQuery(queryArray, orderBy, startAfter, limit) ==
  /\ calls' = Append(calls,
       Call("query", "",
            [queryArray |-> queryArray, orderBy |-> orderBy,
             startAfter |-> startAfter, limit |-> limit],
            getRecordWithQueryRef(queryArray, orderBy, startAfter, limit),
            "pending", Undefined))
  /\ reads' = reads + 1
  /\ UNCHANGED <<db, now, currentUser, issued, storage>>

\* queryRef.get() answers; resolve(snapshot)
getRecordWithQueryResolve(i) ==
  /\ Pending(i) /\ calls[i].op = "query"
  /\ Settle(i, "resolved", QueryGet(db, calls[i].data))
  /\ UNCHANGED <<db, now, currentUser, issued, reads, storage>>

\* the collections and arguments of the queries
QueryDocs ==
  [A |-> [id |-> "A", age |-> 17, score |-> 2],
   B |-> [id |-> "B", age |-> 20, score |-> 1],
   C |-> [id |-> "C", age |-> 30, score |-> 2],
   D |-> [id |-> "D", age |-> 40, score |-> 1],
   E |-> [id |-> "E", age |-> 30, score |-> 1]]

QueryCollections == {[k \in S |-> QueryDocs[k]] : S \in SUBSET DOMAIN QueryDocs}

Clauses ==
  {<<"age", ">", 18>>, <<"age", ">", 30>>, <<"age", "<=", 30>>,
   <<"score", "==", 1>>}

RECURSIVE SeqsUpTo(_, _)
SeqsUpTo(S, n) ==
  IF n = 0
    THEN {<<>>}
    ELSE SeqsUpTo(S, n - 1)
           \cup {Append(q, x) : q \in SeqsUpTo(S, n - 1), x \in S}

QueryArrays == {None} \cup {Some(f) : f \in SeqsUpTo(Clauses, MaxFilters)}
OrderBys ==
  {None, Some(<<"age">>), Some(<<"age", "asc">>), Some(<<"age", "desc">>)}
StartAfters ==
  {None} \cup {Some(DocSnapshot(QueryDocs, k)) : k \in DOMAIN QueryDocs}
Limits == {None} \cup {Some(n) : n \in 1..MaxLimit}

InitQuery ==
  /\ db \in QueryCollections
  /\ now = 0
  /\ currentUser = Null
  /\ issued = 0
  /\ calls = <<>>
  /\ reads = 0
  /\ storage = EmptyObject

\* one query is made: calls share nothing but the collection, which no
\* query changes
NextQuery ==
  \/ /\ calls = <<>>
     /\ \E queryArray \in QueryArrays, orderBy \in OrderBys,
           startAfter \in StartAfters, limit \in Limits :
          getRecordWithQuery(queryArray, orderBy, startAfter, limit)
  \/ \E i \in DOMAIN calls : getRecordWithQueryResolve(i)
  \/ \E i \in DOMAIN calls : Reject(i)

SpecQuery == InitQuery /\ [][NextQuery]_vars

\* --------------------------------------------------- storeImageOnFirestore
\* The promise executor is an async function: an await that fails ends the
\* executor by rejecting the executor's own promise, which the Promise
\* constructor drops; resolve and reject are then never called.
UploadState(pc, blob, thrown) == [pc |-> pc, blob |-> blob, thrown |-> thrown]

Uris == {"file1", "file2"}
Owners == {"u1", "u2"}

\* what getDownloadURL() resolves with for the child userId
DownloadURL(userId) == [url |-> userId]

AtStep(i, pc) ==
  /\ i \in DOMAIN calls
  /\ calls[i].op = "upload"
  /\ calls[i].data.pc = pc

Advance(i, data, status, value) ==
  calls' = [calls EXCEPT ![i].data = data, ![i].status = status,
                         ![i].value = value]

\* storeImageOnFirestore(collection, userId, uri) up to the first await
storeImageOnFirestore(userId, uri) ==
  /\ Len(calls) < MaxCalls
  /\ calls' = Append(calls, Call("upload", userId, uri,
                                 UploadState("fetch", Undefined, Undefined),
                                 "pending", Undefined))
  /\ UNCHANGED <<db, now, currentUser, issued, reads, storage>>

\* const response = await fetch(uri)
FetchDone(i) ==
  /\ AtStep(i, "fetch")
  /\ Advance(i, UploadState("blob", Undefined, Undefined),
             "pending", Undefined)
  /\ UNCHANGED <<db, now, currentUser, issued, reads, storage>>

\* fetch(uri) rejects: the executor ends there
FetchFails(i) ==
  /\ AtStep(i, "fetch")
  /\ Advance(i, UploadState("done", Undefined, "fetch-failed"),
             "pending", Undefined)
  /\ UNCHANGED <<db, now, currentUser, issued, reads, storage>>

\* const blob = await response.blob(); ref.put(blob) is called
BlobDone(i) ==
  /\ AtStep(i, "blob")
  /\ Advance(i, UploadState("put", calls[i].arg, Undefined),
             "pending", Undefined)
  /\ UNCHANGED <<db, now, currentUser, issued, reads, storage>>

\* response.blob() rejects: the executor ends there
BlobFails(i) ==
  /\ AtStep(i, "blob")
  /\ Advance(i, UploadState("done", Undefined, "blob-failed"),
             "pending", Undefined)
  /\ UNCHANGED <<db, now, currentUser, issued, reads, storage>>

\* ref.put(blob) commits; .then calls ref.getDownloadURL()
PutDone(i) ==
  /\ AtStep(i, "put")
  /\ storage' = SetField(storage, calls[i].key, calls[i].data.blob)
  /\ Advance(i, UploadState("url", calls[i].data.blob, Undefined),
             "pending", Undefined)
  /\ UNCHANGED <<db, now, currentUser, issued, reads>>

\* ref.put(blob) fails; the outer .catch rejects
PutFails(i) ==
  /\ AtStep(i, "put")
  /\ Advance(i, UploadState("done", calls[i].data.blob, Undefined),
             "rejected", "put-failed")
  /\ UNCHANGED <<db, now, currentUser, issued, reads, storage>>

\* getDownloadURL() answers; resolve(snap)
UrlDone(i) ==
  /\ AtStep(i, "url")
  /\ Advance(i, UploadState("done", calls[i].data.blob, Undefined),
             "resolved", DownloadURL(calls[i].key))
  /\ UNCHANGED <<db, now, currentUser, issued, reads, storage>>

\* getDownloadURL() fails; the inner .catch rejects
UrlFails(i) ==
  /\ AtStep(i, "url")
  /\ Advance(i, UploadState("done", calls[i].data.blob, Undefined),
             "rejected", "url-failed")
  /\ UNCHANGED <<db, now, currentUser, issued, reads, storage>>

InitUpload ==
  /\ db = EmptyObject
  /\ now = 0
  /\ currentUser = Null
  /\ issued = 0
  /\ calls = <<>>
  /\ reads = 0
  /\ storage = EmptyObject

NextUpload ==
  \/ \E userId \in Owners, uri \in Uris : storeImageOnFirestore(userId, uri)
  \/ \E i \in DOMAIN calls : FetchDone(i)
  \/ \E i \in DOMAIN calls : FetchFails(i)
  \/ \E i \in DOMAIN calls : BlobDone(i)
  \/ \E i \in DOMAIN calls : BlobFails(i)
  \/ \E i \in DOMAIN calls : PutDone(i)
  \/ \E i \in DOMAIN calls : PutFails(i)
  \/ \E i \in DOMAIN calls : UrlDone(i)
  \/ \E i \in DOMAIN calls : UrlFails(i)

SpecUpload == InitUpload /\ [][NextUpload]_vars

\* ------------------------------------------------------------------ claims
Resolves(i) ==
  /\ i \in DOMAIN calls
  /\ calls[i].status = "pending"
  /\ calls'[i].status = "resolved"

Invoked(i) == i \in DOMAIN calls' /\ i \notin DOMAIN calls

OthersUnchanged(key) ==
  \A k \in DOMAIN db \ {key} : k \in DOMAIN db' /\ db'[k] = db[k]

IsAdd(c) == c.op = "add"
IsAutoAdd(c) ==
  IsAdd(c) /\ (Field(c.arg, "id") = Undefined \/ Field(c.arg, "id") = Null)
IsExplicitAdd(c) == IsAdd(c) /\ ~IsAutoAdd(c)

CallerFieldsStored(c, doc) ==
  \A f \in DOMAIN c.arg \ {"id", "created_at"} :
    HasField(doc, f) /\ doc[f] = c.arg[f]

C2_Step ==
  \A i \in DOMAIN calls' :
    IsAutoAdd(calls'[i]) =>
      /\ Invoked(i) =>
           /\ calls'[i].key \notin {"", Undefined, Null}
           /\ calls'[i].key \notin DOMAIN db
           /\ \A j \in DOMAIN calls : calls[j].key # calls'[i].key
      /\ Resolves(i) =>
           /\ calls[i].key \in DOMAIN db'
           /\ Field(db'[calls[i].key], "id") = calls[i].key
           /\ CallerFieldsStored(calls[i], db'[calls[i].key])
           /\ OthersUnchanged(calls[i].key)

\* C2: an addRecord whose record has no id (absent or null) takes a non-empty
\* id that is no key of the collection and of no other call when it is made;
\* when its write commits, the record is stored under that id with its id
\* field equal to it, and every other record of the collection is unchanged.
C2_AutoIdIsFresh == [][C2_Step]_vars

C2_Witness ==
  \E i \in DOMAIN calls :
    /\ IsAutoAdd(calls[i]) /\ calls[i].status = "resolved"
    /\ calls[i].key \in DOMAIN db
    /\ Field(db[calls[i].key], "id") = calls[i].key
    /\ "a" \in DOMAIN db

C3_Step ==
  \A i \in DOMAIN calls' :
    IsExplicitAdd(calls'[i]) =>
      /\ calls'[i].key = calls'[i].arg["id"]
      /\ Resolves(i) =>
           /\ calls[i].key \in DOMAIN db'
           /\ Field(db'[calls[i].key], "id") = calls[i].arg["id"]
           /\ CallerFieldsStored(calls[i], db'[calls[i].key])
           /\ Field(db'[calls[i].key], "created_at") = calls[i].data["created_at"]
           /\ DOMAIN db'[calls[i].key] = DOMAIN calls[i].arg \cup {"created_at"}
           /\ OthersUnchanged(calls[i].key)

OneRecordPerId == \A k \in DOMAIN db : Field(db[k], "id") = k

OverwriteIsNoError ==
  \A i \in DOMAIN calls :
    (Pending(i) /\ IsExplicitAdd(calls[i])) => ENABLED addRecordResolve(i)

\* C3: an addRecord with an explicit id X writes to key X; when its write
\* commits the document at X is exactly the passed record (with created_at),
\* replacing whatever was there, the commit is possible whether or not X
\* exists, other records are unchanged, and every stored record's id is its
\* key, so no two records share an id.
C3_ExplicitIdOverwrites ==
  [](OneRecordPerId /\ OverwriteIsNoError) /\ [][C3_Step]_vars

C3_Witness ==
  \E i \in DOMAIN calls :
    /\ IsExplicitAdd(calls[i]) /\ calls[i].status = "resolved"
    /\ calls[i].key = "a"
    /\ "a" \in DOMAIN db /\ "b" \in DOMAIN db
    /\ db["a"] = calls[i].data
    /\ db["a"] # StoredAtStart("a", "Al")

\* C4: the value addRecord resolves with is the stored record: the id, the
\* caller's fields and created_at.
C4_ResolvesWithStoredRecord ==
  \A i \in DOMAIN calls :
    (IsAdd(calls[i]) /\ calls[i].status = "resolved") =>
      calls[i].value = calls[i].data

C5_Step ==
  \A i \in DOMAIN calls :
    (calls[i].op = "edit" /\ Resolves(i)) =>
      LET key == calls[i].key
          touched == DOMAIN calls[i].arg \cup {"updated_at"}
      IN /\ key \in DOMAIN db
         /\ DOMAIN db' = DOMAIN db
         /\ OthersUnchanged(key)
         /\ DOMAIN db'[key] = DOMAIN db[key] \cup touched
         /\ \A f \in DOMAIN db[key] \ touched : db'[key][f] = db[key][f]
         /\ \A f \in DOMAIN calls[i].arg : db'[key][f] = calls[i].arg[f]

\* C5: when an editRecord commits, the record existed, only the fields of the
\* partial record and updated_at are written, every other field of the record
\* keeps its value, and every other record is unchanged.
C5_EditTouchesOnlyNamedFields == [][C5_Step]_vars

C5_Witness ==
  \E i \in DOMAIN calls :
    /\ calls[i].op = "edit" /\ calls[i].status = "resolved"
    /\ calls[i].arg = [age |-> 30]
    /\ calls[i].key \in DOMAIN db
    /\ db[calls[i].key] =
         Assign(StoredAtStart("a", "Al"), calls[i].data)
    /\ "b" \in DOMAIN db

\* call i is made or settles in this step
Acts(i) == Invoked(i) \/ calls'[i] # calls[i]

C6_Step ==
  \A i \in DOMAIN calls' :
    (calls'[i].op = "soft" /\ Acts(i)) =>
      /\ DOMAIN db' = DOMAIN db
      /\ (Invoked(i) \/ calls[i].key \notin DOMAIN db) => db' = db
      /\ Resolves(i) =>
           LET key == calls[i].key
               got == DocGet(db', key)
               touched == {"updated_at", "updated_by", "deleted"}
           IN /\ key \in DOMAIN db
              /\ got.exists
              /\ HasField(got.data, "deleted") /\ got.data["deleted"] = TRUE
              /\ Field(got.data, "updated_by") = calls[i].arg
              /\ calls[i].arg \in Uids
              /\ Field(got.data, "id") = Field(db[key], "id")
              /\ DOMAIN got.data = DOMAIN db[key] \cup touched
              /\ \A f \in DOMAIN db[key] \ touched : got.data[f] = db[key][f]
              /\ OthersUnchanged(key)

\* C6: when a deleteRecordSoft commits, the record existed and is still there:
\* reading it gives deleted = true, updated_by = the user the call found, and
\* the id and every other field as before; no step of a deleteRecordSoft call
\* adds or removes a document.
C6_SoftDeleteKeepsRecord == [][C6_Step]_vars

C6_Witness ==
  \E i \in DOMAIN calls :
    /\ calls[i].op = "soft" /\ calls[i].status = "resolved"
    /\ calls[i].key \in DOMAIN db
    /\ HasField(db[calls[i].key], "deleted")
    /\ db[calls[i].key]["deleted"] = TRUE
    /\ Field(db[calls[i].key], "updated_by") = "u1"
    /\ Field(db[calls[i].key], "id") = calls[i].key
    /\ Field(db[calls[i].key], "name") = "Al"

\* C7: a deleteRecordSoft made with no current user ends as a rejection of its
\* promise, with an AuthError.
C7_NoActorRejects ==
  \A i \in DOMAIN calls :
    (calls[i].op = "soft" /\ calls[i].arg = Null) =>
      calls[i].status = "rejected" /\ calls[i].value = "AuthError"

C10_Step ==
  \A i \in DOMAIN calls :
    (calls[i].op \in {"edit", "soft"} /\ Resolves(i)) =>
      LET key == calls[i].key
      IN /\ HasField(db[key], "updated_at") =>
              db'[key]["updated_at"] >= db[key]["updated_at"]
         /\ HasField(db'[key], "created_at") =>
              db'[key]["updated_at"] >= db'[key]["created_at"]

\* C10: each committed editRecord / deleteRecordSoft leaves an updated_at that
\* is not below the updated_at it replaces nor below the record's created_at.
C10_UpdatedAtNeverDecreases == [][C10_Step]_vars

\* ---- C1: the reference result, stated on the arguments of the call
IsQuery(c) == c.op = "query"

ClauseHolds(doc, clause) ==
  CASE clause[2] = ">" -> doc[clause[1]] > clause[3]
    [] clause[2] = "<=" -> doc[clause[1]] <= clause[3]
    [] clause[2] = "==" -> doc[clause[1]] = clause[3]

Satisfying(d, arg) ==
  {k \in DOMAIN d :
     arg.queryArray # None =>
       \A j \in DOMAIN arg.queryArray[1] :
         ClauseHolds(d[k], arg.queryArray[1][j])}

\* x is strictly before y in the order of the sort argument (ties by id)
SortedBefore(x, y, orderBy) ==
  LET field == orderBy[1][1]
      desc == Len(orderBy[1]) = 2 /\ orderBy[1][2] = "desc"
      a == x.data[field]
      b == y.data[field]
  IN IF desc
       THEN a > b \/ (a = b /\ IdRank(x.id) > IdRank(y.id))
       ELSE a < b \/ (a = b /\ IdRank(x.id) < IdRank(y.id))

Eligible(d, arg) ==
  {k \in Satisfying(d, arg) :
     arg.startAfter # None =>
       SortedBefore(arg.startAfter[1], DocSnapshot(d, k), arg.orderBy)}

Expected(d, arg) ==
  {k \in Eligible(d, arg) :
     arg.limit # None =>
       Cardinality({j \in Eligible(d, arg) :
                      SortedBefore(DocSnapshot(d, j), DocSnapshot(d, k),
                                   arg.orderBy)}) < arg.limit[1]}

\* with a sort: exactly the expected records, each once, in sort order
IsSortedReference(r, d, arg) ==
  /\ Len(r) = Cardinality(Expected(d, arg))
  /\ {r[j].id : j \in DOMAIN r} = Expected(d, arg)
  /\ \A j \in DOMAIN r : r[j] = DocSnapshot(d, r[j].id)
  /\ \A j, k \in DOMAIN r : j < k => SortedBefore(r[j], r[k], arg.orderBy)

\* without a sort (and so without a cursor): satisfying records, each once,
\* all of them or as many as the limit
IsUnsortedReference(r, d, arg) ==
  LET all == Cardinality(Satisfying(d, arg))
  IN /\ {r[j].id : j \in DOMAIN r} \subseteq Satisfying(d, arg)
     /\ Cardinality({r[j].id : j \in DOMAIN r}) = Len(r)
     /\ \A j \in DOMAIN r : r[j] = DocSnapshot(d, r[j].id)
     /\ Len(r) = IF arg.limit # None /\ arg.limit[1] < all
                   THEN arg.limit[1] ELSE all

StageRank(st) ==
  CASE st.kind = "where" -> 1
    [] st.kind = "orderBy" -> 2
    [] st.kind = "startAfter" -> 3
    [] st.kind = "limit" -> 4

KindCount(q, kind) == Cardinality({j \in DOMAIN q : q[j].kind = kind})

\* filters in input order, then at most one sort, one cursor, one limit
StagesInOrder(q, arg) ==
  LET filters == IF arg.queryArray = None THEN <<>> ELSE arg.queryArray[1]
  IN /\ \A j, k \in DOMAIN q : j < k => StageRank(q[j]) <= StageRank(q[k])
     /\ KindCount(q, "where") = Len(filters)
     /\ \A j \in DOMAIN filters :
          /\ q[j].kind = "where"
          /\ <<q[j].field, q[j].op, q[j].value>> = filters[j]
     /\ KindCount(q, "orderBy") = IF arg.orderBy = None THEN 0 ELSE 1
     /\ KindCount(q, "startAfter") = IF arg.startAfter = None THEN 0 ELSE 1
     /\ KindCount(q, "limit") = IF arg.limit = None THEN 0 ELSE 1

ExampleCollection == [k \in {"A", "B", "C", "D"} |-> QueryDocs[k]]
ExampleArg(startAfter) ==
  [queryArray |-> Some(<<(<<"age", ">", 18>>)>>),
   orderBy |-> Some(<<"age", "asc">>),
   startAfter |-> startAfter, limit |-> Some(2)]

Ids(r) == [j \in DOMAIN r |-> r[j].id]

\* C1: every getRecordWithQuery call builds its stages in the order filters
\* (in input order), sort, cursor, limit and issues one read; when it
\* resolves, with a cursor given only together with a sort, the result is the
\* reference result of its arguments.  On the example collection, age > 18
\* sorted by age with limit 2 gives [B, C], and after the cursor C gives [D].
C1_QueryIsReferenceResult ==
  /\ reads = Len(calls)
  /\ \A i \in DOMAIN calls :
       IsQuery(calls[i]) =>
         /\ StagesInOrder(calls[i].data, calls[i].arg)
         /\ (/\ calls[i].status = "resolved"
             /\ calls[i].arg.startAfter # None => calls[i].arg.orderBy # None)
              =>
              /\ IF calls[i].arg.orderBy # None
                   THEN IsSortedReference(calls[i].value, db, calls[i].arg)
                   ELSE IsUnsortedReference(calls[i].value, db, calls[i].arg)
              /\ (db = ExampleCollection /\ calls[i].arg = ExampleArg(None))
                   => Ids(calls[i].value) = <<"B", "C">>
              /\ (/\ db = ExampleCollection
                  /\ calls[i].arg =
                       ExampleArg(Some(DocSnapshot(QueryDocs, "C"))))
                   => Ids(calls[i].value) = <<"D">>

C1_Witness ==
  \E i \in DOMAIN calls :
    /\ IsQuery(calls[i]) /\ calls[i].status = "resolved"
    /\ db = ExampleCollection
    /\ calls[i].arg = ExampleArg(Some(DocSnapshot(QueryDocs, "C")))
    /\ Ids(calls[i].value) = <<"D">>

\* C9: the orderBy stage of every query built carries a direction, asc or desc
C9_SortStageHasDirection ==
  \A i \in DOMAIN calls :
    IsQuery(calls[i]) =>
      \A j \in DOMAIN calls[i].data :
        calls[i].data[j].kind = "orderBy" =>
          calls[i].data[j].dir \in {"asc", "desc"}

\* C8: an upload whose executor has finished is settled: resolved with the
\* URL once the blob is stored, or rejected with the failure that ended it.
C8_UploadSettles ==
  \A i \in DOMAIN calls :
    (calls[i].op = "upload" /\ calls[i].data.pc = "done") =>
      /\ calls[i].status \in {"resolved", "rejected"}
      /\ calls[i].status = "resolved" =>
           /\ calls[i].value = DownloadURL(calls[i].key)
           /\ HasField(storage, calls[i].key)
      /\ calls[i].data.thrown # Undefined =>
           calls[i].status = "rejected" /\ calls[i].value = calls[i].data.thrown

====
